---- MODULE Spec2Model ----
(***************************************************************************)
(* Weekly collection scheduling for the Manhattan districts                *)
(* (scripts/problem1_solve.py): feasible-pattern generation, the           *)
(* topology-aware schedule evaluator, the simulated annealing and the      *)
(* no-sharing report.                                                      *)
(*                                                                         *)
(* SpecPatterns runs get_valid_patterns on single districts over a range   *)
(* of tonnages.  Spec runs the pattern pool, any sequence of               *)
(* evaluate_solution calls and analyze_and_save on sub-lists of the        *)
(* district table: unique ids, all of them nodes of the topology.          *)
(* SpecSA runs __main__: the pattern pool, solve_sa iteration by           *)
(* iteration and analyze_and_save on the returned assignment, on lists     *)
(* that mix rows of the table with rows that have a single candidate.      *)
(* SpecSAFair adds the fairness of the run, SpecTwoRuns a second run of    *)
(* solve_sa fed the same draws.  The recomputation of the daily trucks by  *)
(* scripts/problem1_visualization.py is an operator on the saved rows.     *)
(*                                                                         *)
(* Numbers.  daily_tons is an integer number of tons.  A per-visit load    *)
(* daily_tons * 7.0 / sum(pat) is kept exactly, in sixths of a ton         *)
(* (sum(pat) is 2 or 3, and both divide 42).  The cost is kept exactly, in *)
(* 49ths (the population variance of 7 integers is a multiple of 1/49).    *)
(* Floating-point rounding of these exact values is not modelled.          *)
(***************************************************************************)
EXTENDS Integers, Sequences, FiniteSets

VARIABLES
    districts,             \* the list of district dicts (load_data's result)
    pc,                    \* position of the run: "loaded", "pooled", "evaluated", "done"
    indices,               \* the indices argument of the last evaluate_solution call
    cost,                  \* cost returned by the last evaluate_solution call, in 49ths
    daily_trucks,          \* daily_trucks returned by the last evaluate_solution call
    total_cohesion_score,  \* total_cohesion_score of the last evaluate_solution call
    days_no_share,         \* days_no_share computed by analyze_and_save
    final_solution,        \* the rows of problem1_final_solution.csv
    prior_other,           \* history: an earlier call evaluated another assignment
    current_idx,           \* solve_sa: the current assignment, one index per district
    curr_cost,             \* solve_sa: cost of the current assignment, in 49ths
    best_idx,              \* solve_sa: the best assignment seen
    best_cost,             \* solve_sa: its cost, in 49ths
    T,                     \* solve_sa: the number of times T *= alpha has run
    sel_idx,               \* solve_sa: idx, the district drawn by this iteration (0-based)
    old_val,               \* solve_sa: the drawn district's index before the proposal
    draw,                  \* solve_sa: how random.random() compared with exp(-delta / T)
    first_cost,            \* history: the cost of the initial random assignment
    least_cost,            \* history: the least cost solve_sa's evaluations returned
    twin                   \* a second run of solve_sa fed the same draws, or NoRun

\* the locals of solve_sa
sa_vars == <<current_idx, curr_cost, best_idx, best_cost, T, sel_idx, old_val, draw,
             first_cost, least_cost, twin>>

vars == <<districts, pc, indices, cost, daily_trucks, total_cohesion_score,
          days_no_share, final_solution, prior_other, sa_vars>>

----------------------------------------------------------------------------
(* Configuration (problem1_solve.py, section 1) *)

TRUCK_CAPACITY == 12
MAX_GAP_DAYS == 4
STREET_CAPACITY_TONS == 600
W_TRUCKS == 5000
W_VAR == 50
W_COHESION == 300

\* length of a weekly pattern: itertools.product(..., repeat=7), range(7)
NumDays == 7

\* loads are counted in 1/LoadUnit ton: LoadUnit * 7 / freq is whole for freq 2, 3
LoadUnit == 2 * 3

\* costs are counted in 1/CostUnit: NumDays^2 * variance is whole
CostUnit == NumDays * NumDays

----------------------------------------------------------------------------
(* Bounds of the model *)

\* get_valid_patterns is explored for daily_tons in -NegTons .. MaxTons
MaxTons == 210
NegTons == 2

\* the evaluator is explored on the sub-lists of the first MaxNode rows of the
\* district table, each random index drawn among the first MaxChoice candidates
MaxNode == 4
MaxChoice == 2

----------------------------------------------------------------------------
(* Arithmetic helpers *)

RECURSIVE SumSeq(_)
SumSeq(s) == IF s = <<>> THEN 0 ELSE s[1] + SumSeq(Tail(s))

RECURSIVE MaxSeq(_)
MaxSeq(s) == IF Len(s) = 1 THEN s[1]
             ELSE LET m == MaxSeq(Tail(s)) IN IF s[1] > m THEN s[1] ELSE m

\* math.ceil(a / b) for b > 0
CeilDiv(a, b) == 0 - ((0 - a) \div b)

RECURSIVE Pow2(_)
Pow2(n) == IF n = 0 THEN 1 ELSE 2 * Pow2(n - 1)

----------------------------------------------------------------------------
(* Pattern Generator: get_valid_patterns *)

\* the k-th tuple (k = 0, 1, ...) of itertools.product([0, 1], repeat=7):
\* lexicographic, the first position most significant
Product(k) == [i \in 1..NumDays |-> (k \div Pow2(NumDays - i)) % 2]

Products == [k \in 1..Pow2(NumDays) |-> Product(k - 1)]

\* pickup_days = [i for i, x in enumerate(p) if x == 1]   (days are 0-based)
pickup_days(p) == SelectSeq([i \in 1..NumDays |-> i - 1], LAMBDA d : p[d + 1] = 1)

\* the consecutive gaps followed by the wraparound gap
gaps(p) ==
    LET pd == pickup_days(p)
    IN  [i \in 1..(Len(pd) - 1) |-> pd[i + 1] - pd[i]]
          \o <<(NumDays - pd[Len(pd)]) + pd[1]>>

max_gap(p) == MaxSeq(gaps(p))

\* variant of the filters without line 96 (the high-risk rule)
NoHighRiskFilter(d, p) ==
    /\ SumSeq(p) \in {2, 3}
    /\ max_gap(p) <= MAX_GAP_DAYS
    /\ max_gap(p) * d.daily_tons <= STREET_CAPACITY_TONS

\* variant of the filters without line 108 (the street capacity rule)
NoStreetFilter(d, p) ==
    /\ SumSeq(p) \in {2, 3}
    /\ ~(d.is_high_risk /\ SumSeq(p) < 3)
    /\ max_gap(p) <= MAX_GAP_DAYS

\* p passes every `continue` of the enumeration loop, lines 93-108
PassesFilters(d, p) ==
    /\ SumSeq(p) \in {2, 3}
    /\ ~(d.is_high_risk /\ SumSeq(p) < 3)
    /\ max_gap(p) <= MAX_GAP_DAYS
    /\ max_gap(p) * d.daily_tons <= STREET_CAPACITY_TONS

\* variant of the default with a fourth pickup day
WrongFallbackPattern == <<1, 0, 1, 0, 1, 0, 1>>

\* the forced default np.array([1,0,1,0,1,0,0])
FallbackPattern == <<1, 0, 1, 0, 1, 0, 0>>

\* variant without the fallback branch, lines 113-114
NoFallback(d) == SelectSeq(Products, LAMBDA p : PassesFilters(d, p))

\* variant that appends the default without testing `if not valid_patterns`
AlwaysFallback(d) ==
    Append(SelectSeq(Products, LAMBDA p : PassesFilters(d, p)), FallbackPattern)

\* get_valid_patterns(district), lines 81-116
get_valid_patterns(d) ==
    LET valid_patterns == SelectSeq(Products, LAMBDA p : PassesFilters(d, p))
    IN  IF valid_patterns = <<>> THEN <<FallbackPattern>> ELSE valid_patterns

----------------------------------------------------------------------------
(* District records *)

\* an absent dict key is the empty sequence, a present one a 1-tuple
Absent == <<>>

\* the value of twin when a single run is followed
NoRun == <<>>

NewDistrict(id, tons, risk) ==
    [id |-> id, daily_tons |-> tons, is_high_risk |-> risk,
     patterns |-> Absent, current_pattern |-> Absent,
     pickup_load |-> Absent, load_today |-> Absent]

\* solve_sa, lines 184-185: for d in districts: d['patterns'] = get_valid_patterns(d)
InitPatternPool ==
    /\ pc = "loaded"
    /\ districts' = [i \in 1..Len(districts) |->
                       [districts[i] EXCEPT !.patterns = get_valid_patterns(districts[i])]]
    /\ pc' = "pooled"
    /\ twin' = IF twin = NoRun THEN NoRun
               ELSE [twin EXCEPT !.districts =
                        [i \in 1..Len(twin.districts) |->
                            [twin.districts[i] EXCEPT
                                !.patterns = get_valid_patterns(twin.districts[i])]]]
    /\ UNCHANGED <<indices, cost, daily_trucks, total_cohesion_score,
                   days_no_share, final_solution, prior_other, current_idx, curr_cost, best_idx,
                   best_cost, T, sel_idx, old_val, draw, first_cost, least_cost>>

----------------------------------------------------------------------------
(* Topology Graph: REAL_TOPOLOGY and G = nx.Graph(REAL_TOPOLOGY) *)

\* variant in which MN02 does not list MN01 back
OneWayTopology ==
    [n \in {"MN01", "MN02", "MN03", "MN04", "MN05", "MN06",
            "MN07", "MN08", "MN09", "MN10", "MN11", "MN12"} |->
        CASE n = "MN01" -> {"MN02", "MN03"}
          [] n = "MN02" -> {"MN03", "MN04"}
          [] n = "MN03" -> {"MN01", "MN02", "MN06"}
          [] n = "MN04" -> {"MN02", "MN05", "MN07"}
          [] n = "MN05" -> {"MN04", "MN06", "MN07"}
          [] n = "MN06" -> {"MN03", "MN05", "MN08"}
          [] n = "MN07" -> {"MN04", "MN05", "MN08", "MN09"}
          [] n = "MN08" -> {"MN06", "MN07", "MN11"}
          [] n = "MN09" -> {"MN07", "MN10", "MN12"}
          [] n = "MN10" -> {"MN09", "MN11", "MN12"}
          [] n = "MN11" -> {"MN08", "MN10", "MN12"}
          [] n = "MN12" -> {"MN09", "MN10", "MN11"}]

REAL_TOPOLOGY ==
    [n \in {"MN01", "MN02", "MN03", "MN04", "MN05", "MN06",
            "MN07", "MN08", "MN09", "MN10", "MN11", "MN12"} |->
        CASE n = "MN01" -> {"MN02", "MN03"}
          [] n = "MN02" -> {"MN01", "MN03", "MN04"}
          [] n = "MN03" -> {"MN01", "MN02", "MN06"}
          [] n = "MN04" -> {"MN02", "MN05", "MN07"}
          [] n = "MN05" -> {"MN04", "MN06", "MN07"}
          [] n = "MN06" -> {"MN03", "MN05", "MN08"}
          [] n = "MN07" -> {"MN04", "MN05", "MN08", "MN09"}
          [] n = "MN08" -> {"MN06", "MN07", "MN11"}
          [] n = "MN09" -> {"MN07", "MN10", "MN12"}
          [] n = "MN10" -> {"MN09", "MN11", "MN12"}
          [] n = "MN11" -> {"MN08", "MN10", "MN12"}
          [] n = "MN12" -> {"MN09", "MN10", "MN11"}]

\* nx.Graph(dict of lists): every key and every listed neighbour is a node,
\* every (key, neighbour) pair an undirected edge
G_nodes == DOMAIN REAL_TOPOLOGY \cup UNION {REAL_TOPOLOGY[n] : n \in DOMAIN REAL_TOPOLOGY}

G_edges == UNION {{{u, v} : v \in REAL_TOPOLOGY[u]} : u \in DOMAIN REAL_TOPOLOGY}

\* G.subgraph(nbunch): the nodes of nbunch that are in G, and the edges among them
subgraph_nodes(nbunch) == {nbunch[k] : k \in 1..Len(nbunch)} \cap G_nodes

subgraph_edges(nbunch) == {e \in G_edges : e \subseteq subgraph_nodes(nbunch)}

\* variant that counts an edge once from each of its ends
DirectedEdgeCount(nbunch) ==
    Cardinality({<<u, v>> \in subgraph_nodes(nbunch) \X subgraph_nodes(nbunch) :
                    {u, v} \in G_edges})

\* subgraph.number_of_edges()
number_of_edges(nbunch) == Cardinality(subgraph_edges(nbunch))

\* G.adj: the neighbours of every node of the undirected graph
G_adj == [u \in G_nodes |-> {v \in G_nodes : {u, v} \in G_edges}]

\* the nodes reachable from the set S inside the node set ns (breadth-first)
RECURSIVE Reach(_, _)
Reach(S, ns) ==
    LET S2 == S \cup {v \in ns : \E u \in S : v \in G_adj[u]}
    IN  IF S2 = S THEN S ELSE Reach(S2, ns)

\* variant that pools all active districts, adjacent or not
OneComponent(nbunch) ==
    IF subgraph_nodes(nbunch) = {} THEN {} ELSE {subgraph_nodes(nbunch)}

\* nx.connected_components(G.subgraph(nbunch))
connected_components(nbunch) ==
    LET ns == subgraph_nodes(nbunch) IN {Reach({n}, ns) : n \in ns}

----------------------------------------------------------------------------
(* Schedule Evaluator: calculate_trucks_with_topology, evaluate_solution *)

RECURSIVE SumOver(_, _)
\* sum(f[x] for x in S)
SumOver(f, S) ==
    IF S = {} THEN 0
    ELSE LET x == CHOOSE y \in S : TRUE IN f[x] + SumOver(f, S \ {x})

\* d_map = {d['id']: d for d in districts}: a later district replaces an
\* earlier one of the same id.  The value is the district's position.
d_map(ds) ==
    [id \in {ds[i].id : i \in 1..Len(ds)} |->
        CHOOSE i \in 1..Len(ds) :
            /\ ds[i].id = id
            /\ \A j \in 1..Len(ds) : ds[j].id = id => j <= i]

\* component_total_load = sum(district_map[node]['load_today'] for node in component)
component_total_load(component, ds) ==
    LET district_map == d_map(ds)
    IN  SumOver([node \in component |-> ds[district_map[node]].load_today[1]], component)

\* variant that rounds the truck count down
FloorTrucks(load) == load \div (TRUCK_CAPACITY * LoadUnit)

\* math.ceil(load / TRUCK_CAPACITY), the load in 1/LoadUnit ton
trucks_for(load) == CeilDiv(load, TRUCK_CAPACITY * LoadUnit)

calculate_trucks_with_topology(day_active_districts, ds) ==
    IF day_active_districts = <<>> THEN 0
    ELSE LET components == connected_components(day_active_districts)
         IN  SumOver([c \in components |-> trucks_for(component_total_load(c, ds))],
                     components)

\* variant of lines 148-152 that divides the week's tonnage by three visits
\* whatever the pattern
AssumesThreeVisits(ds, idx) ==
    [i \in 1..Len(ds) |->
        LET pat == ds[i].patterns[idx[i] + 1]
        IN  [ds[i] EXCEPT !.current_pattern = <<pat>>,
                          !.pickup_load = <<(ds[i].daily_tons * NumDays * LoadUnit) \div 3>>]]

\* variant of lines 148-152 that stores the per-visit tonnage (whole tons) in
\* daily_tons as well
OverwritesTons(ds, idx) ==
    [i \in 1..Len(ds) |->
        LET pat == ds[i].patterns[idx[i] + 1]
        IN  [ds[i] EXCEPT !.current_pattern = <<pat>>,
                          !.pickup_load =
                              <<(ds[i].daily_tons * NumDays * LoadUnit) \div SumSeq(pat)>>,
                          !.daily_tons = (ds[i].daily_tons * NumDays) \div SumSeq(pat)]]

\* variant of lines 148-152 that leaves the district only its chosen pattern
TrimsPatterns(ds, idx) ==
    [i \in 1..Len(ds) |->
        LET pat == ds[i].patterns[idx[i] + 1]
        IN  [ds[i] EXCEPT !.current_pattern = <<pat>>,
                          !.pickup_load =
                              <<(ds[i].daily_tons * NumDays * LoadUnit) \div SumSeq(pat)>>,
                          !.patterns = <<pat>>]]

\* variant of lines 148-152 that keeps a current_pattern and pickup_load
\* already set
KeepFirstPattern(ds, idx) ==
    [i \in 1..Len(ds) |->
        LET pat == ds[i].patterns[idx[i] + 1]
        IN  IF ds[i].current_pattern # Absent THEN ds[i]
            ELSE [ds[i] EXCEPT !.current_pattern = <<pat>>,
                               !.pickup_load =
                                   <<(ds[i].daily_tons * NumDays * LoadUnit) \div SumSeq(pat)>>]]

\* lines 148-152: every district's current_pattern and pickup_load are rewritten
SetPatterns(ds, idx) ==
    [i \in 1..Len(ds) |->
        LET pat == ds[i].patterns[idx[i] + 1]
        IN  [ds[i] EXCEPT !.current_pattern = <<pat>>,
                          !.pickup_load =
                              <<(ds[i].daily_tons * NumDays * LoadUnit) \div SumSeq(pat)>>]]

\* active_nodes of a day: the ids of the districts active that day, in list order
active_nodes(ds, day) ==
    LET act == SelectSeq([i \in 1..Len(ds) |-> i],
                         LAMBDA i : ds[i].current_pattern[1][day + 1] = 1)
    IN  [k \in 1..Len(act) |-> ds[act[k]].id]

\* variant of lines 157-160 that writes load_today only where the key is not set
RECURSIVE KeepFirstLoad(_, _, _)
KeepFirstLoad(ds, day, i) ==
    IF i > Len(ds) THEN ds
    ELSE IF ds[i].current_pattern[1][day + 1] = 1
              /\ ds[d_map(ds)[ds[i].id]].load_today = Absent
         THEN KeepFirstLoad(
                  [ds EXCEPT ![d_map(ds)[ds[i].id]].load_today = ds[i].pickup_load],
                  day, i + 1)
         ELSE KeepFirstLoad(ds, day, i + 1)

\* lines 157-160, from the i-th district on:
\* d_map[d['id']]['load_today'] = d['pickup_load'] for every active district
RECURSIVE StoreLoads(_, _, _)
StoreLoads(ds, day, i) ==
    IF i > Len(ds) THEN ds
    ELSE IF ds[i].current_pattern[1][day + 1] = 1
         THEN StoreLoads(
                  [ds EXCEPT ![d_map(ds)[ds[i].id]].load_today = ds[i].pickup_load],
                  day, i + 1)
         ELSE StoreLoads(ds, day, i + 1)

\* one pass of the loop over the days, lines 155-169: r carries the districts
\* and the accumulated daily_trucks and total_cohesion_score
Day(r, day) ==
    LET ds     == StoreLoads(r.districts, day, 1)
        active == active_nodes(ds, day)
    IN  [districts |-> ds,
         daily_trucks |->
             Append(r.daily_trucks, calculate_trucks_with_topology(active, ds)),
         total_cohesion_score |->
             IF Len(active) > 1
             THEN r.total_cohesion_score + number_of_edges(active)
             ELSE r.total_cohesion_score]

RECURSIVE DayLoop(_, _)
DayLoop(r, day) == IF day = NumDays THEN r ELSE DayLoop(Day(r, day), day + 1)

\* variant with the sample variance (ddof = 1) in place of the population variance
SampleVariance(x) ==
    (NumDays * SumSeq([d \in 1..NumDays |->
                         (NumDays * x[d] - SumSeq(x)) * (NumDays * x[d] - SumSeq(x))]))
        \div (NumDays * (NumDays - 1))

\* NumDays^2 times np.var(x): the mean of the squared deviations from the mean
np_var(x) ==
    LET total == SumSeq(x)
    IN  SumSeq([d \in 1..NumDays |->
                  (NumDays * x[d] - total) * (NumDays * x[d] - total)]) \div NumDays

\* evaluate_solution(districts, indices): the districts as the call leaves them,
\* the cost (in 1/CostUnit) and daily_trucks
evaluate_solution(ds, idx) ==
    LET r == DayLoop([districts |-> SetPatterns(ds, idx),
                      daily_trucks |-> <<>>,
                      total_cohesion_score |-> 0], 0)
    IN  [districts |-> r.districts,
         daily_trucks |-> r.daily_trucks,
         total_cohesion_score |-> r.total_cohesion_score,
         cost |-> (W_TRUCKS * CostUnit * MaxSeq(r.daily_trucks))
                    + (W_VAR * np_var(r.daily_trucks))
                    - (W_COHESION * CostUnit * r.total_cohesion_score)]

----------------------------------------------------------------------------
(* Reporting Projection: analyze_and_save, lines 229-243 *)

\* variant of day_sum with the per-district truck count rounded down
NoShareFloor(ds, idx, day) ==
    SumSeq([i \in 1..Len(ds) |->
              LET pat == ds[i].patterns[idx[i] + 1]
              IN  IF pat[day + 1] = 1
                  THEN FloorTrucks((ds[i].daily_tons * NumDays * LoadUnit) \div SumSeq(pat))
                  ELSE 0])

\* day_sum of one day: every active district ceil-divided on its own
day_sum(ds, idx, day) ==
    SumSeq([i \in 1..Len(ds) |->
              LET pat == ds[i].patterns[idx[i] + 1]
              IN  IF pat[day + 1] = 1
                  THEN trucks_for((ds[i].daily_tons * NumDays * LoadUnit) \div SumSeq(pat))
                  ELSE 0])

\* the rows written to OUTPUT_FILE, lines 262-276.  Avg_Daily_Tons is
\* round(daily_tons, 1): a whole number of tons is written as it is.  The
\* string "v" stands for the check mark of an active day.
df_out(ds, idx) ==
    [i \in 1..Len(ds) |->
        LET pat == ds[i].patterns[idx[i] + 1]
        IN  [District |-> ds[i].id,
             Risk_Level |-> IF ds[i].is_high_risk THEN "HIGH" ELSE "Normal",
             Avg_Daily_Tons |-> ds[i].daily_tons,
             Freq |-> SumSeq(pat),
             days |-> [j \in 1..NumDays |-> IF pat[j] = 1 THEN "v" ELSE "-"]]]

----------------------------------------------------------------------------
(* Visualization: problem1_visualization.py, lines 17-18 and 63-103 *)

\* TRUCK_CAPACITY = 12.0 * 0.9 of the visualization, in tenths of a ton
Vis_TRUCK_CAPACITY == 12 * 9

\* math.ceil(comp_load / TRUCK_CAPACITY) of the visualization, the load in
\* 1/LoadUnit ton
vis_trucks_for(comp_load) == CeilDiv(comp_load * 10, Vis_TRUCK_CAPACITY * LoadUnit)

\* lines 63-66: the {day}_Num column, 1 if the cell holds the check mark or 'Pickup'
day_Num(row, day) == IF row.days[day + 1] \in {"v", "Pickup"} THEN 1 ELSE 0

\* lines 78-79: the Districts of the rows active on a day, in row order
vis_active_nodes(df, day) ==
    LET act == SelectSeq([i \in 1..Len(df) |-> i], LAMBDA i : day_Num(df[i], day) = 1)
    IN  [k \in 1..Len(act) |-> df[act[k]].District]

\* lines 87-90: node_loads[District] = Avg_Daily_Tons * 7.0 / Freq of the active
\* rows, a later row replacing an earlier one of the same District
node_loads(df, day) ==
    [n \in {df[i].District : i \in {j \in 1..Len(df) : day_Num(df[j], day) = 1}} |->
        LET i == CHOOSE j \in 1..Len(df) :
                    /\ df[j].District = n
                    /\ day_Num(df[j], day) = 1
                    /\ \A k \in 1..Len(df) :
                          (df[k].District = n /\ day_Num(df[k], day) = 1) => k <= j
        IN  (df[i].Avg_Daily_Tons * NumDays * LoadUnit) \div df[i].Freq]

\* calculate_daily_trucks_with_topology(df): the trucks of the 7 days
calculate_daily_trucks_with_topology(df) ==
    [d \in 1..NumDays |->
        LET active == vis_active_nodes(df, d - 1)
        IN  IF active = <<>> THEN 0
            ELSE LET components == connected_components(active)
                     loads == node_loads(df, d - 1)
                 IN  SumOver([c \in components |-> vis_trucks_for(SumOver(loads, c))],
                             components)]

----------------------------------------------------------------------------
(* Sharing groups of the second visualization: problem1_visualization2.py *)

\* REAL_TOPOLOGY of problem1_visualization2.py, lines 18-31: the solver's table
Vis2_REAL_TOPOLOGY == REAL_TOPOLOGY

\* REAL_TOPOLOGY.get(node, [])
Vis2_neighbors(node) ==
    IF node \in DOMAIN Vis2_REAL_TOPOLOGY THEN Vis2_REAL_TOPOLOGY[node] ELSE {}

\* lines 103-104: G = nx.Graph(); G.add_nodes_from(active_districts)
Vis2_nodes(active_districts) ==
    {active_districts[k] : k \in 1..Len(active_districts)}

\* lines 107-111: an edge from every active node to each of its active neighbours
Vis2_edges(active_districts) ==
    UNION {{{node, nb} : nb \in Vis2_neighbors(node) \cap Vis2_nodes(active_districts)} :
              node \in Vis2_nodes(active_districts)}

\* the nodes reachable from the set S along the edges es
RECURSIVE Vis2_Reach(_, _)
Vis2_Reach(S, es) ==
    LET S2 == S \cup {v \in UNION es : \E u \in S : {u, v} \in es}
    IN  IF S2 = S THEN S ELSE Vis2_Reach(S2, es)

\* get_daily_clusters(active_districts), lines 97-113, as a set of node sets
get_daily_clusters(active_districts) ==
    IF active_districts = <<>> THEN {}
    ELSE {Vis2_Reach({n}, Vis2_edges(active_districts)) :
             n \in Vis2_nodes(active_districts)}

----------------------------------------------------------------------------
(* The run: load_data, the pattern pool, evaluations, the report *)

\* the ids of the district table in row order: f'MN{i:02d}' for i in range(1, 13)
DistrictIds ==
    <<"MN01", "MN02", "MN03", "MN04", "MN05", "MN06",
      "MN07", "MN08", "MN09", "MN10", "MN11", "MN12">>

\* variant that draws one index more than there are districts
ExtraIndex(ds) ==
    {idx \in [1..(Len(ds) + 1) -> 0..(MaxChoice - 1)] :
        \A i \in 1..Len(ds) : idx[i] < Len(ds[i].patterns)}

\* index vectors the callers pass: one random.randint(0, len(patterns) - 1) per district
IndexVectors(ds) ==
    {idx \in [1..Len(ds) -> 0..(MaxChoice - 1)] :
        \A i \in 1..Len(ds) : idx[i] < Len(ds[i].patterns)}

\* a call of evaluate_solution, as made from solve_sa (lines 189, 207)
EvaluateSolution ==
    /\ pc \in {"pooled", "evaluated"}
    /\ \E idx \in IndexVectors(districts) :
          \E r \in {evaluate_solution(districts, idx)} :
              /\ districts' = r.districts
              /\ indices' = idx
              /\ cost' = r.cost
              /\ daily_trucks' = r.daily_trucks
              /\ total_cohesion_score' = r.total_cohesion_score
              /\ prior_other' = (prior_other \/ (pc = "evaluated" /\ indices # idx))
    /\ pc' = "evaluated"
    /\ UNCHANGED <<days_no_share, final_solution, sa_vars>>

\* analyze_and_save(districts, indices) up to the report's numbers
AnalyzeAndSave ==
    /\ pc = "evaluated"
    /\ \E idx \in IndexVectors(districts) :
          \E r \in {evaluate_solution(districts, idx)} :
              /\ districts' = r.districts
              /\ indices' = idx
              /\ cost' = r.cost
              /\ daily_trucks' = r.daily_trucks
              /\ total_cohesion_score' = r.total_cohesion_score
              /\ days_no_share' = [day \in 1..NumDays |-> day_sum(districts, idx, day - 1)]
              /\ final_solution' = df_out(districts, idx)
              /\ prior_other' = (prior_other \/ indices # idx)
    /\ pc' = "done"
    /\ UNCHANGED sa_vars

\* the rows of the district table, as _generate_mock_data builds them:
\* {'id': f'MN{i:02d}', 'daily_tons': 15.0 + i, 'is_high_risk': i % 2 == 0}
MockBaseTons == 15

TableRow(i) == NewDistrict(DistrictIds[i], MockBaseTons + i, i % 2 = 0)

\* the sub-list of s at the positions in keep, in order
RECURSIVE SubList(_, _)
SubList(s, keep) ==
    IF s = <<>> THEN <<>>
    ELSE LET rest == SubList(Tail(s), {k - 1 : k \in keep \ {1}})
         IN  IF 1 \in keep THEN <<s[1]>> \o rest ELSE rest

\* solve_sa has not been entered: its locals do not exist yet
NotStarted ==
    /\ current_idx = <<>>
    /\ curr_cost = 0
    /\ best_idx = <<>>
    /\ best_cost = 0
    /\ T = 0
    /\ sel_idx = 0
    /\ old_val = 0
    /\ draw = "none"
    /\ first_cost = 0
    /\ least_cost = 0
    /\ twin = NoRun

Init ==
    /\ \E keep \in (SUBSET (1..MaxNode)) \ {{}} :
          districts = SubList([i \in 1..MaxNode |-> TableRow(i)], keep)
    /\ pc = "loaded"
    /\ indices = <<>>
    /\ cost = 0
    /\ daily_trucks = <<>>
    /\ total_cohesion_score = 0
    /\ days_no_share = <<>>
    /\ final_solution = <<>>
    /\ prior_other = FALSE
    /\ NotStarted

Next == InitPatternPool \/ EvaluateSolution \/ AnalyzeAndSave

Spec == Init /\ [][Next]_vars

----------------------------------------------------------------------------
(* Specification of the pattern generator over a range of single districts *)

InitPatterns ==
    /\ \E tons \in (0 - NegTons)..MaxTons, risk \in BOOLEAN :
          districts = <<NewDistrict("MN01", tons, risk)>>
    /\ pc = "loaded"
    /\ indices = <<>>
    /\ cost = 0
    /\ daily_trucks = <<>>
    /\ total_cohesion_score = 0
    /\ days_no_share = <<>>
    /\ final_solution = <<>>
    /\ prior_other = FALSE
    /\ NotStarted

NextPatterns == InitPatternPool

SpecPatterns == InitPatterns /\ [][NextPatterns]_vars

----------------------------------------------------------------------------
(* Specification of the evaluator over district tables read from a file *)

Digit == <<"0", "1", "2", "3", "4", "5", "6", "7", "8", "9">>

\* load_data, line 60: name = f"MN{cd_id % 100:02d}"
district_name(cd_id) ==
    "MN" \o Digit[((cd_id % 100) \div 10) + 1] \o Digit[(cd_id % 10) + 1]

\* the CD_ID values of the rows: two adjacent districts of the topology, one
\* that is no node of it, and one that gets the name of the first again
CdIds == {101, 102, 113, 201}

\* the longest table read
MaxRows == 2

\* load_data, lines 69-74: a row of the file as a district; its tonnage and
\* risk flag follow the row number as in the mock table
LoadedRow(cd_id) ==
    NewDistrict(district_name(cd_id), MockBaseTons + (cd_id % 100), cd_id % 2 = 0)

InitLoaded ==
    /\ \E n \in 1..MaxRows :
          \E rows \in [1..n -> CdIds] :
              districts = [i \in 1..n |-> LoadedRow(rows[i])]
    /\ pc = "loaded"
    /\ indices = <<>>
    /\ cost = 0
    /\ daily_trucks = <<>>
    /\ total_cohesion_score = 0
    /\ days_no_share = <<>>
    /\ final_solution = <<>>
    /\ prior_other = FALSE
    /\ NotStarted

SpecLoaded == InitLoaded /\ [][Next]_vars

----------------------------------------------------------------------------
(* Simulated annealing: solve_sa, lines 181-221 *)

\* The schedule is T = 3000.0, alpha = 0.99, while T > 0.1, with T *= alpha at
\* the end of every iteration that evaluates a proposal.  Variable T counts the
\* coolings, and the loop condition T > 0.1 is "fewer than CoolingSteps
\* coolings so far"; the run is shortened to CoolingSteps coolings.
CoolingSteps == 3

\* solve_sa is explored on the sub-lists of the first MaxSANode rows of the
\* district table, any of the rows carrying HeavyTons in place of its tonnage
MaxSANode == 2

\* a daily tonnage no pattern can serve within STREET_CAPACITY_TONS: three
\* visits a week leave a gap of at least NumDays \div 3 days
HeavyTons == (STREET_CAPACITY_TONS \div (NumDays \div 3)) + 1

\* variant that takes no district for a single-candidate one
NeverSingle(d) == FALSE

\* len(districts[idx]['patterns']) <= 1
single_candidate(d) == Len(d.patterns) <= 1

\* the values random.randint(0, len(patterns) - 1) returns, among the first
\* MaxChoice candidates
Choices(d) ==
    0..((IF Len(d.patterns) < MaxChoice THEN Len(d.patterns) ELSE MaxChoice) - 1)

\* the right operand of "delta < 0 or random.random() < math.exp(-delta / T)":
\* not evaluated when delta < 0; exp(0) is 1.0 and random.random() is below
\* 1.0; for delta > 0 the draw falls on either side
Draws(delta) ==
    IF delta < 0 THEN {"none"}
    ELSE IF delta = 0 THEN {"below"}
    ELSE {"below", "above"}

\* variant in which the draw alone decides, downhill moves included
OnlyByDraw(delta, dr) == dr = "below"

\* delta < 0 or random.random() < math.exp(-delta / T)
accepted(delta, dr) == delta < 0 \/ dr = "below"

\* variant that records every accepted assignment as the best
TracksCurrent(c, b) == TRUE

\* curr_cost < best_cost
improves(c, b) == c < b

\* variant with best_idx = current_idx: one list under two names
Aliased(best, cur) == cur

\* best_idx = list(current_idx) (lines 191, 215): a list of its own, which the
\* writes to current_idx (lines 206, 217) do not reach; cur is current_idx
\* after those writes
unaliased(best, cur) == best

\* variant in which the temperature is never lowered
NoCooling(t) == t

\* line 219: T *= alpha; T counts the multiplications made so far
cool(t) == t + 1

\* variant that writes old_val into every entry of the index vector
RevertAll(cur, i, old) == [k \in 1..Len(cur) |-> old]

\* variant without the revert of a rejected proposal
NoRevert(cur, i, old) == cur

\* current_idx[idx] = old_val
revert(cur, i, old) == [cur EXCEPT ![i + 1] = old]

\* lines 188-195 on the second run, with the first run's draws
initial_solution(run, start) ==
    LET r == evaluate_solution(run.districts, start)
    IN  [run EXCEPT !.districts = r.districts,
                    !.current_idx = start,
                    !.curr_cost = r.cost,
                    !.best_cost = r.cost,
                    !.best_idx = start,
                    !.T = 0]

\* lines 201-219 on the second run, with the first run's draws
iteration(run, i, new_val, dr) ==
    IF single_candidate(run.districts[i + 1]) THEN run
    ELSE LET cand == [run.current_idx EXCEPT ![i + 1] = new_val]
             r == evaluate_solution(run.districts, cand)
             keep == accepted(r.cost - run.curr_cost, dr)
             better == keep /\ improves(r.cost, run.best_cost)
         IN  [run EXCEPT
                 !.districts = r.districts,
                 !.current_idx = IF keep THEN cand
                                 ELSE revert(cand, i, run.current_idx[i + 1]),
                 !.curr_cost = IF keep THEN r.cost ELSE run.curr_cost,
                 !.best_cost = IF better THEN r.cost ELSE run.best_cost,
                 !.best_idx = IF better THEN cand
                              ELSE IF keep THEN unaliased(run.best_idx, cand)
                              ELSE unaliased(run.best_idx,
                                             revert(cand, i, run.current_idx[i + 1])),
                 !.T = cool(run.T)]

\* lines 188-195: the initial random assignment, its cost, the first best
InitialSolution ==
    /\ pc = "pooled"
    /\ \E start \in IndexVectors(districts) :
          \E r \in {evaluate_solution(districts, start)} :
              /\ districts' = r.districts
              /\ indices' = start
              /\ cost' = r.cost
              /\ daily_trucks' = r.daily_trucks
              /\ total_cohesion_score' = r.total_cohesion_score
              /\ current_idx' = start
              /\ curr_cost' = r.cost
              /\ best_cost' = r.cost
              /\ best_idx' = start
              /\ first_cost' = r.cost
              /\ least_cost' = r.cost
              /\ twin' = IF twin = NoRun THEN NoRun ELSE initial_solution(twin, start)
    /\ T' = 0
    /\ pc' = "loop"
    /\ UNCHANGED <<days_no_share, final_solution, prior_other, sel_idx, old_val, draw>>

\* lines 198-200: the loop condition holds, a district is drawn
Select ==
    /\ pc = "loop"
    /\ T < CoolingSteps
    /\ \E i \in 0..(Len(districts) - 1) : sel_idx' = i
    /\ pc' = "selected"
    /\ UNCHANGED <<districts, indices, cost, daily_trucks, total_cohesion_score,
                   days_no_share, final_solution, prior_other, current_idx, curr_cost, best_idx,
                   best_cost, T, old_val, draw, first_cost, least_cost, twin>>

\* line 201: continue
Skip ==
    /\ pc = "selected"
    /\ single_candidate(districts[sel_idx + 1])
    /\ pc' = "loop"
    /\ UNCHANGED <<districts, indices, cost, daily_trucks, total_cohesion_score,
                   days_no_share, final_solution, prior_other, sa_vars>>

\* lines 203-219: the proposal, its evaluation, acceptance or revert, cooling
Propose ==
    /\ pc = "selected"
    /\ ~single_candidate(districts[sel_idx + 1])
    /\ \E new_val \in Choices(districts[sel_idx + 1]) :
          \E cand \in {[current_idx EXCEPT ![sel_idx + 1] = new_val]} :
              \E r \in {evaluate_solution(districts, cand)} :
                  \E dr \in Draws(r.cost - curr_cost) :
                      /\ districts' = r.districts
                      /\ indices' = cand
                      /\ cost' = r.cost
                      /\ daily_trucks' = r.daily_trucks
                      /\ total_cohesion_score' = r.total_cohesion_score
                      /\ prior_other' = (prior_other \/ indices # cand)
                      /\ old_val' = current_idx[sel_idx + 1]
                      /\ draw' = dr
                      /\ least_cost' = IF r.cost < least_cost THEN r.cost ELSE least_cost
                      /\ twin' = IF twin = NoRun THEN NoRun
                                 ELSE iteration(twin, sel_idx, new_val, dr)
                      /\ IF accepted(r.cost - curr_cost, dr)
                         THEN /\ current_idx' = cand
                              /\ curr_cost' = r.cost
                              /\ IF improves(r.cost, best_cost)
                                 THEN /\ best_cost' = r.cost
                                      /\ best_idx' = cand
                                 ELSE /\ best_cost' = best_cost
                                      /\ best_idx' = unaliased(best_idx, cand)
                         ELSE /\ current_idx' = revert(cand, sel_idx, current_idx[sel_idx + 1])
                              /\ best_idx' =
                                     unaliased(best_idx,
                                               revert(cand, sel_idx, current_idx[sel_idx + 1]))
                              /\ UNCHANGED <<curr_cost, best_cost>>
    /\ T' = cool(T)
    /\ pc' = "loop"
    /\ UNCHANGED <<days_no_share, final_solution, sel_idx, first_cost>>

\* lines 198, 221: the loop condition fails, solve_sa returns
Return ==
    /\ pc = "loop"
    /\ T >= CoolingSteps
    /\ pc' = "returned"
    /\ UNCHANGED <<districts, indices, cost, daily_trucks, total_cohesion_score,
                   days_no_share, final_solution, prior_other, sa_vars>>

\* line 284: analyze_and_save(d_solved, idx_solved) on what solve_sa returned
AnalyzeSolved ==
    /\ pc = "returned"
    /\ \E r \in {evaluate_solution(districts, best_idx)} :
          /\ districts' = r.districts
          /\ indices' = best_idx
          /\ cost' = r.cost
          /\ daily_trucks' = r.daily_trucks
          /\ total_cohesion_score' = r.total_cohesion_score
          /\ days_no_share' = [day \in 1..NumDays |-> day_sum(districts, best_idx, day - 1)]
          /\ final_solution' = df_out(districts, best_idx)
          /\ prior_other' = (prior_other \/ indices # best_idx)
    /\ pc' = "done"
    /\ UNCHANGED sa_vars

\* row i of the district table with a tonnage that leaves it one candidate
HeavyRow(i) == NewDistrict(DistrictIds[i], HeavyTons, i % 2 = 0)

InitSA ==
    /\ \E keep \in (SUBSET (1..MaxSANode)) \ {{}} :
          \E heavy \in SUBSET keep :
              districts = SubList([i \in 1..MaxSANode |->
                                     IF i \in heavy THEN HeavyRow(i) ELSE TableRow(i)],
                                  keep)
    /\ pc = "loaded"
    /\ indices = <<>>
    /\ cost = 0
    /\ daily_trucks = <<>>
    /\ total_cohesion_score = 0
    /\ days_no_share = <<>>
    /\ final_solution = <<>>
    /\ prior_other = FALSE
    /\ NotStarted

\* the last index random.randint(0, len(patterns) - 1) returns, within MaxChoice
LastChoices(ds) ==
    [i \in 1..Len(ds) |->
        (IF Len(ds[i].patterns) < MaxChoice THEN Len(ds[i].patterns) ELSE MaxChoice) - 1]

\* the districts as an earlier run of solve_sa on the same list left them:
\* with their patterns and the scratch fields of its last evaluation
LeftByEarlierRun(ds) ==
    LET pooled == [i \in 1..Len(ds) |->
                     [ds[i] EXCEPT !.patterns = get_valid_patterns(ds[i])]]
    IN  evaluate_solution(pooled, LastChoices(pooled)).districts

\* two runs on the same district rows: the first on the list as loaded, the
\* second on the list an earlier run has used
InitTwoRuns ==
    /\ \E keep \in (SUBSET (1..MaxSANode)) \ {{}} :
          \E heavy \in SUBSET keep :
              \E ds \in {SubList([i \in 1..MaxSANode |->
                                     IF i \in heavy THEN HeavyRow(i) ELSE TableRow(i)],
                                  keep)} :
                  /\ districts = ds
                  /\ twin = [districts |-> LeftByEarlierRun(ds),
                             current_idx |-> <<>>,
                             curr_cost |-> 0,
                             best_idx |-> <<>>,
                             best_cost |-> 0,
                             T |-> 0]
    /\ pc = "loaded"
    /\ indices = <<>>
    /\ cost = 0
    /\ daily_trucks = <<>>
    /\ total_cohesion_score = 0
    /\ days_no_share = <<>>
    /\ final_solution = <<>>
    /\ prior_other = FALSE
    /\ current_idx = <<>>
    /\ curr_cost = 0
    /\ best_idx = <<>>
    /\ best_cost = 0
    /\ T = 0
    /\ sel_idx = 0
    /\ old_val = 0
    /\ draw = "none"
    /\ first_cost = 0
    /\ least_cost = 0

NextSA ==
    \/ InitPatternPool
    \/ InitialSolution
    \/ Select
    \/ Skip
    \/ Propose
    \/ Return
    \/ AnalyzeSolved

SpecSA == InitSA /\ [][NextSA]_vars

SpecTwoRuns == InitTwoRuns /\ [][NextSA]_vars

\* a draw of a district that has more than one candidate
SelectFree == Select /\ ~single_candidate(districts[sel_idx' + 1])

\* a step of the run: every action of NextSA moves pc, and in every state
\* before the end of the run one of them can be taken
Advance ==
    /\ pc # "done"
    /\ pc' \in {"pooled", "loop", "selected", "returned", "done"} \ {pc}

\* the interpreter keeps running solve_sa, and random.randint(0, len(districts) - 1),
\* drawn again at every iteration, cannot miss the districts with several
\* candidates for ever
SpecSAFair == SpecSA /\ WF_pc(Advance) /\ SF_vars(SelectFree)

----------------------------------------------------------------------------
(* Properties of the pattern generator, stated without the generator's code *)

Pooled == pc # "loaded"

PatternsOf(i) == {districts[i].patterns[k] : k \in 1..Len(districts[i].patterns)}

\* number of active days of a pattern
Frequency(p) == Cardinality({i \in 1..NumDays : p[i] = 1})

\* days from active day a (0-based) to the next active day, walking round the week
GapAfter(p, a) ==
    CHOOSE g \in 1..NumDays :
        /\ p[((a + g) % NumDays) + 1] = 1
        /\ \A h \in 1..(g - 1) : p[((a + h) % NumDays) + 1] = 0

LargestCyclicGap(p) ==
    LET gs == {GapAfter(p, a) : a \in {b \in 0..(NumDays - 1) : p[b + 1] = 1}}
    IN  CHOOSE g \in gs : \A h \in gs : h <= g

WithinLimits(d, p) ==
    /\ LargestCyclicGap(p) <= MAX_GAP_DAYS
    /\ LargestCyclicGap(p) * d.daily_tons <= STREET_CAPACITY_TONS

\* the enumerated patterns that survive the frequency, risk, gap and street filters
Survivors(d) ==
    {p \in [1..NumDays -> {0, 1}] :
        /\ Frequency(p) \in {2, 3}
        /\ (d.is_high_risk => Frequency(p) = 3)
        /\ WithinLimits(d, p)}

\* C1: for every district (any daily_tons, any is_high_risk), get_valid_patterns
\* returns a list with at least one pattern.
C1_NeverEmpty ==
    Pooled => \A i \in 1..Len(districts) : Len(districts[i].patterns) >= 1

\* a district whose filters reject every enumerated pattern
C1_Witness ==
    /\ Pooled
    /\ \E i \in 1..Len(districts) :
          /\ Survivors(districts[i]) = {}
          /\ Len(districts[i].patterns) = 1

\* C2: every returned pattern has exactly 2 or 3 active days; for a high-risk
\* district every returned pattern has exactly 3, the forced fallback pattern
\* being the only permitted exception.
C2_FrequencyAndRisk ==
    Pooled =>
      \A i \in 1..Len(districts) : \A p \in PatternsOf(i) :
          /\ Frequency(p) \in {2, 3}
          /\ districts[i].is_high_risk =>
                \/ Frequency(p) = 3
                \/ (Survivors(districts[i]) = {} /\ p = FallbackPattern)

\* a high-risk district with a full candidate list, all of frequency 3
C2_Witness ==
    /\ Pooled
    /\ \E i \in 1..Len(districts) :
          /\ districts[i].is_high_risk
          /\ Len(districts[i].patterns) > 1
          /\ \A p \in PatternsOf(i) : Frequency(p) = 3

\* C3: every returned pattern other than the fallback pattern has largest cyclic
\* gap (wraparound included) <= MAX_GAP_DAYS, and that gap times daily_tons is
\* <= STREET_CAPACITY_TONS.
C3_GapAndStreetLimits ==
    Pooled =>
      \A i \in 1..Len(districts) : \A p \in PatternsOf(i) :
          \/ WithinLimits(districts[i], p)
          \/ (Survivors(districts[i]) = {} /\ p = FallbackPattern)

\* a district heavy enough that the street limit, not the gap limit, removes patterns
C3_Witness ==
    /\ Pooled
    /\ \E i \in 1..Len(districts) :
          /\ MAX_GAP_DAYS * districts[i].daily_tons > STREET_CAPACITY_TONS
          /\ Len(districts[i].patterns) > 1
          /\ \A p \in PatternsOf(i) : LargestCyclicGap(p) < MAX_GAP_DAYS

\* C4: when no enumerated pattern survives the filters the result is exactly one
\* pattern, the default active on days 0, 2 and 4 only; when at least one
\* survives, the result is the survivors and the default is not inserted.
C4_FallbackOnlyWhenEmpty ==
    Pooled =>
      \A i \in 1..Len(districts) :
          IF Survivors(districts[i]) = {}
          THEN /\ Len(districts[i].patterns) = 1
               /\ \A day \in 0..(NumDays - 1) :
                     districts[i].patterns[1][day + 1] = 1 <=> day \in {0, 2, 4}
          ELSE /\ PatternsOf(i) = Survivors(districts[i])
               /\ Len(districts[i].patterns) = Cardinality(Survivors(districts[i]))

\* the default was force-inserted although it breaks the street limit
C4_Witness ==
    /\ Pooled
    /\ \E i \in 1..Len(districts) :
          /\ Survivors(districts[i]) = {}
          /\ districts[i].patterns = <<FallbackPattern>>
          /\ ~WithinLimits(districts[i], FallbackPattern)

\* C5: the patterns of a returned list are pairwise distinct.
C5_PairwiseDistinct ==
    Pooled =>
      \A i \in 1..Len(districts) :
          \A j, k \in 1..Len(districts[i].patterns) :
              j # k => districts[i].patterns[j] # districts[i].patterns[k]

\* a list that holds the default pattern as an ordinary survivor, once
C5_Witness ==
    /\ Pooled
    /\ \E i \in 1..Len(districts) :
          /\ Len(districts[i].patterns) > 1
          /\ FallbackPattern \in PatternsOf(i)

----------------------------------------------------------------------------
(* Properties of the evaluator and the report, stated from the inputs of the *)
(* last call (districts' ids, tonnages and candidate lists, and indices)     *)

Evaluated == pc \in {"evaluated", "done"}

DistrictSet == 1..Len(districts)

\* the pattern the assignment gives district i
ChosenPattern(i) == districts[i].patterns[indices[i] + 1]

\* the districts active on a day (0-based)
ActiveOn(day) == {i \in DistrictSet : ChosenPattern(i)[day + 1] = 1}

\* daily_tons * 7 / frequency, in 1/LoadUnit ton
VisitLoad(i) == (districts[i].daily_tons * NumDays * LoadUnit) \div Frequency(ChosenPattern(i))

\* districts i and j are joined by an edge of the topology
Adjacent(i, j) ==
    \/ /\ districts[i].id \in DOMAIN REAL_TOPOLOGY
       /\ districts[j].id \in REAL_TOPOLOGY[districts[i].id]
    \/ /\ districts[j].id \in DOMAIN REAL_TOPOLOGY
       /\ districts[i].id \in REAL_TOPOLOGY[districts[j].id]

\* C is closed in A: no edge leads from C to a district of A outside C
Closed(C, A) == \A i \in C : \A j \in A \ C : ~Adjacent(i, j)

\* the connected component of i in the graph induced on A: the least closed
\* set that holds i
ComponentOf(i, A) ==
    {j \in A : \A C \in SUBSET A : (i \in C /\ Closed(C, A)) => j \in C}

ComponentsOn(day) == {ComponentOf(i, ActiveOn(day)) : i \in ActiveOn(day)}

\* the least whole number of trucks that carries the load
LeastTrucks(load) ==
    CHOOSE k \in 0..load :
        /\ k * TRUCK_CAPACITY * LoadUnit >= load
        /\ (k - 1) * TRUCK_CAPACITY * LoadUnit < load

ComponentTrucks(C) == LeastTrucks(SumOver([i \in C |-> VisitLoad(i)], C))

\* C6: the truck count of every day is the sum, over the connected components
\* of the topology graph induced on the districts active that day, of
\* ceil(sum of the members' pickup_load / TRUCK_CAPACITY); an active district
\* with no active neighbour contributes ceil(pickup_load / TRUCK_CAPACITY) and a
\* day with no active district has 0 trucks.
C6_TrucksPerComponent ==
    Evaluated =>
      \A day \in 0..(NumDays - 1) :
          /\ daily_trucks[day + 1] =
                SumOver([C \in ComponentsOn(day) |-> ComponentTrucks(C)], ComponentsOn(day))
          /\ ActiveOn(day) = {} => daily_trucks[day + 1] = 0
          /\ (\A i, j \in ActiveOn(day) : ~Adjacent(i, j)) =>
                daily_trucks[day + 1] =
                    SumOver([i \in ActiveOn(day) |-> LeastTrucks(VisitLoad(i))], ActiveOn(day))

\* one evaluation with a day without pickups, a day whose active districts split
\* into two components, and a day on which two districts that are not
\* neighbours share trucks through a third
C6_Witness ==
    /\ pc = "evaluated"
    /\ \E day \in 0..(NumDays - 1) : ActiveOn(day) = {}
    /\ \E day \in 0..(NumDays - 1) : Cardinality(ComponentsOn(day)) >= 2
    /\ \E day \in 0..(NumDays - 1) : \E i, j \in ActiveOn(day) :
          /\ i # j
          /\ ~Adjacent(i, j)
          /\ j \in ComponentOf(i, ActiveOn(day))

\* C7: on every day the no-sharing truck count of analyze_and_save is >= the
\* topology-aware truck count of evaluate_solution.
C7_PoolingNeverAddsTrucks ==
    pc = "done" =>
      \A day \in 1..NumDays : days_no_share[day] >= daily_trucks[day]

\* a report in which pooling saves a truck on one day and none on another
C7_Witness ==
    /\ pc = "done"
    /\ \E day \in 1..NumDays : days_no_share[day] > daily_trucks[day]
    /\ \E day \in 1..NumDays :
          days_no_share[day] = daily_trucks[day] /\ daily_trucks[day] > 0

\* the largest of the daily truck counts
LargestOf(x) == CHOOSE m \in {x[d] : d \in 1..NumDays} : \A d \in 1..NumDays : x[d] <= m

\* NumDays^2 times the population variance: mean of squares minus squared mean
Variance49(x) ==
    NumDays * SumSeq([d \in 1..NumDays |-> x[d] * x[d]]) - SumSeq(x) * SumSeq(x)

\* C8: the cost is W_TRUCKS * (maximum of the 7 daily truck counts)
\* + W_VAR * (population variance of the 7 counts)
\* - W_COHESION * (sum of the per-day cohesion scores), exactly: no other term,
\* no rounding (both sides in 1/CostUnit).
C8_CostFormula ==
    Evaluated =>
      cost = W_TRUCKS * CostUnit * LargestOf(daily_trucks)
               + W_VAR * Variance49(daily_trucks)
               - W_COHESION * CostUnit * total_cohesion_score

\* an evaluation in which all three terms are non-zero
C8_Witness ==
    /\ pc = "evaluated"
    /\ LargestOf(daily_trucks) > 0
    /\ Variance49(daily_trucks) > 0
    /\ total_cohesion_score > 0

\* the adjacent pairs of districts that are both active on a day
AdjacentPairsOn(day) ==
    {pair \in SUBSET ActiveOn(day) :
        /\ Cardinality(pair) = 2
        /\ \E i, j \in pair : i # j /\ Adjacent(i, j)}

\* C9: the total cohesion score is the sum over the 7 days of the number of
\* undirected topology edges with both endpoints active that day, each adjacent
\* pair counted once; a day with at most one active district contributes 0.
C9_CohesionCountsEdges ==
    Evaluated =>
      total_cohesion_score =
          SumSeq([d \in 1..NumDays |-> Cardinality(AdjacentPairsOn(d - 1))])

\* an evaluation with an adjacent active pair on one day and a single active
\* district on another
C9_Witness ==
    /\ pc = "evaluated"
    /\ \E day \in 0..(NumDays - 1) : AdjacentPairsOn(day) # {}
    /\ \E day \in 0..(NumDays - 1) : Cardinality(ActiveOn(day)) = 1
    /\ total_cohesion_score > 0

\* the districts as load_data and the pattern pool leave them: no scratch field
WithoutScratch(ds) ==
    [i \in 1..Len(ds) |->
        [ds[i] EXCEPT !.current_pattern = Absent,
                      !.pickup_load = Absent,
                      !.load_today = Absent]]

\* C10: whatever calls came before, a call returns the cost and the 7 daily
\* truck counts that the same call returns on districts that carry no scratch
\* field; current_pattern, pickup_load and load_today left by earlier calls
\* do not influence the result.
C10_ScratchNeverLeaks ==
    Evaluated =>
      LET fresh == evaluate_solution(WithoutScratch(districts), indices)
      IN  /\ cost = fresh.cost
          /\ daily_trucks = fresh.daily_trucks

\* a call made after a call with another assignment, which left every district
\* a load_today
C10_Witness ==
    /\ pc = "evaluated"
    /\ prior_other
    /\ \A i \in DistrictSet : districts[i].load_today # Absent
    /\ Len(districts) > 1

----------------------------------------------------------------------------
(* Properties of solve_sa *)

InLoop == pc \in {"loop", "selected"}

Returned == pc = "returned"

\* the cost of an assignment, evaluated on districts that carry no scratch field
CostOf(assignment) == evaluate_solution(WithoutScratch(districts), assignment).cost

\* C11: when solve_sa returns, the cost of the returned best assignment is at
\* most the cost of the initial random assignment, and from one step of the
\* run to the next best_cost never increases.
C11_BestNeverWorse ==
    /\ [](Returned => (best_cost <= first_cost /\ CostOf(best_idx) <= first_cost))
    /\ [][InLoop => best_cost' <= best_cost]_vars

\* a run that returns a best assignment cheaper than the initial one, its
\* current assignment having moved uphill from the best
C11_Witness ==
    /\ Returned
    /\ best_cost < first_cost
    /\ curr_cost > best_cost

\* C12: for every district list, solve_sa returns: the loop reaches the end of
\* its schedule, whether some or all districts have only one candidate pattern.
C12_AlwaysReturns == <>Returned

\* a step that completes an iteration on a district with several candidates
ProposalStep ==
    /\ pc = "selected"
    /\ pc' = "loop"
    /\ Len(districts[sel_idx + 1].patterns) > 1

\* C13: in each non-skipped iteration the proposal (the assignment just
\* evaluated, with cost new_cost) is kept if new_cost < curr_cost or else if
\* the random draw is below exp(-(new_cost - curr_cost) / T); when kept,
\* curr_cost becomes new_cost and best_idx, best_cost are replaced exactly when
\* new_cost < best_cost; when not kept, the current assignment, curr_cost,
\* best_idx and best_cost are as before the iteration.
C13_MetropolisStep ==
    [][ProposalStep =>
          LET new_cost == cost'
              proposal == indices'
              kept == new_cost < curr_cost \/ draw' = "below"
          IN  /\ \A i \in 1..Len(districts) :
                    i # sel_idx + 1 => proposal[i] = current_idx[i]
              /\ kept =>
                    /\ current_idx' = proposal
                    /\ curr_cost' = new_cost
                    /\ IF new_cost < best_cost
                       THEN best_idx' = proposal /\ best_cost' = new_cost
                       ELSE best_idx' = best_idx /\ best_cost' = best_cost
              /\ ~kept =>
                    /\ current_idx' = current_idx
                    /\ current_idx'[sel_idx + 1] = old_val'
                    /\ curr_cost' = curr_cost
                    /\ best_idx' = best_idx
                    /\ best_cost' = best_cost]_vars

\* a costlier proposal on another pattern has just been rejected and reverted,
\* after an earlier proposal improved on the initial assignment
C13_Witness ==
    /\ pc = "loop"
    /\ draw = "above"
    /\ cost > curr_cost
    /\ indices # current_idx
    /\ current_idx[sel_idx + 1] = old_val
    /\ best_cost < first_cost

\* a step that completes an iteration on a district with one candidate
SkippedStep ==
    /\ pc = "selected"
    /\ pc' = "loop"
    /\ Len(districts[sel_idx + 1].patterns) = 1

\* C14: when the drawn district has only one candidate pattern the iteration
\* changes nothing: no evaluation is made (the districts and the last
\* evaluation's argument and results stay as they were) and the current
\* assignment, curr_cost, best_idx, best_cost and the temperature are unchanged.
C14_SkipIsNoOp ==
    [][SkippedStep =>
          UNCHANGED <<districts, indices, cost, daily_trucks, total_cohesion_score,
                      current_idx, curr_cost, best_idx, best_cost, T>>]_vars

\* an iteration has just been skipped while the districts carry the scratch
\* fields of a rejected proposal on another district
C14_Witness ==
    /\ pc = "loop"
    /\ Len(districts[sel_idx + 1].patterns) = 1
    /\ T > 0
    /\ indices # current_idx

----------------------------------------------------------------------------
(* Properties of the input and of the topology *)

\* C16: a district table with an invalid field, such as a negative daily
\* tonnage, is rejected before optimization starts: the run never gets past
\* load_data into the pattern generation of solve_sa.
C16_InvalidInputRejected ==
    (\E i \in 1..Len(districts) : districts[i].daily_tons < 0) => pc = "loaded"

\* B is listed as a neighbour of A
Lists(a, b) == a \in DOMAIN REAL_TOPOLOGY /\ b \in REAL_TOPOLOGY[a]

\* C17: REAL_TOPOLOGY is symmetric: for every pair of districts A and B, B is
\* listed as a neighbour of A exactly when A is listed as a neighbour of B, and
\* no district is listed as its own neighbour (A and B range over the nodes of
\* the topology and the districts of the list).
C17_TopologySymmetric ==
    LET all == G_nodes \cup {districts[i].id : i \in 1..Len(districts)}
    IN  \A a \in all :
            /\ ~Lists(a, a)
            /\ \A b \in all : Lists(a, b) <=> Lists(b, a)

\* an evaluation that pooled two districts of the list, each of which lists
\* the other
C17_Witness ==
    /\ pc = "evaluated"
    /\ total_cohesion_score > 0
    /\ \E i, j \in DistrictSet :
          /\ Lists(districts[i].id, districts[j].id)
          /\ Lists(districts[j].id, districts[i].id)
          /\ \E day \in 0..(NumDays - 1) : {i, j} \subseteq ActiveOn(day)

----------------------------------------------------------------------------
(* Properties of the report and of the visualization *)

\* the step that runs analyze_and_save on what solve_sa returned
ReportStep == pc = "returned" /\ pc' = "done"

\* the fields load_data and the pattern pool give a district
InputFields(d) ==
    [id |-> d.id, daily_tons |-> d.daily_tons, is_high_risk |-> d.is_high_risk,
     patterns |-> d.patterns]

\* the step leaves every district its id, daily_tons, is_high_risk and patterns
SameInputs ==
    /\ Len(districts') = Len(districts)
    /\ \A i \in 1..Len(districts) : InputFields(districts'[i]) = InputFields(districts[i])

\* C18 as claimed: analyze_and_save is a read-only derived view: computing the
\* report changes neither the assignment nor any field of the district records.
C18_ReportReadOnly ==
    [][ReportStep => (best_idx' = best_idx /\ districts' = districts)]_vars

\* C18, amended: computing the report changes neither the assignment nor the
\* id, daily_tons, is_high_risk or patterns of any district; through
\* evaluate_solution it rewrites the scratch fields, which then hold the
\* pattern and the per-visit load of the reported assignment.
C18_ReportKeepsInputs ==
    [][ReportStep =>
          /\ best_idx' = best_idx
          /\ SameInputs
          /\ \A i \in 1..Len(districts) :
                LET pat == districts[i].patterns[best_idx[i] + 1]
                IN  /\ districts'[i].current_pattern = <<pat>>
                    /\ districts'[i].pickup_load =
                           <<(districts[i].daily_tons * NumDays * LoadUnit) \div Frequency(pat)>>
                    /\ districts'[i].load_today = districts'[i].pickup_load]_vars

\* the report of a run whose last iteration accepted a move away from the best
\* assignment: the scratch fields it found were not those of the best
C18_Witness ==
    /\ pc = "done"
    /\ final_solution # <<>>
    /\ curr_cost > best_cost
    /\ Len(districts[sel_idx + 1].patterns) > 1
    /\ current_idx[sel_idx + 1] # old_val
    /\ current_idx # best_idx

\* C19: the visualization's truck capacity is the capacity of the modelling
\* code that wrote problem1_final_solution.csv, so that for the saved schedule
\* calculate_daily_trucks_with_topology yields the per-day truck counts of
\* the solver's evaluate_solution.
C19_SameTrucksInVisualization ==
    pc = "done" =>
        /\ Vis_TRUCK_CAPACITY = TRUCK_CAPACITY * 10
        /\ calculate_daily_trucks_with_topology(final_solution) = daily_trucks

\* C20: once the pattern lists have been computed at the start of solve_sa, no
\* step of the annealing loop, with its calls of evaluate_solution, changes a
\* district's pattern list, id, daily_tons or is_high_risk.
C20_InputsImmutable ==
    [][(pc \in {"pooled", "loop", "selected"}) => SameInputs]_vars

\* the run has returned after evaluating assignments other than its best one,
\* the scratch fields of every district written
C20_Witness ==
    /\ Returned
    /\ T = CoolingSteps
    /\ indices # best_idx
    /\ Len(districts) > 1
    /\ \A i \in 1..Len(districts) :
          /\ districts[i].current_pattern # Absent
          /\ districts[i].load_today # Absent
          /\ Len(districts[i].patterns) > 1

----------------------------------------------------------------------------
(* Further properties of solve_sa *)

\* C21: each iteration changes the current assignment in at most one
\* coordinate: from the draw of a district to the end of the iteration, the
\* index of every district other than the drawn one is unchanged.
C21_OneCoordinate ==
    [][InLoop =>
          /\ Len(current_idx') = Len(current_idx)
          /\ \A i \in 1..Len(current_idx) :
                i # sel_idx' + 1 => current_idx'[i] = current_idx[i]]_vars

\* on a list of several districts whose indices differ, the latest of several
\* iterations has rejected a proposal on another pattern and reverted it
C21_Witness ==
    /\ pc = "loop"
    /\ Len(districts) > 1
    /\ T > 1
    /\ draw = "above"
    /\ indices # current_idx
    /\ \E i, j \in 1..Len(districts) : current_idx[i] # current_idx[j]

----------------------------------------------------------------------------
(* Further properties of the evaluator *)

\* the days of the week on which district i is active under its chosen pattern
ActiveDays(i) == {day \in 0..(NumDays - 1) : ChosenPattern(i)[day + 1] = 1}

\* C22: for every district and chosen pattern, the load presented on an active
\* day is daily_tons * 7 / frequency, the same on every active day, so that
\* the loads of the district's active days add up to 7 * daily_tons (loads in
\* 1/LoadUnit ton).
C22_WeeklyTonnageConserved ==
    Evaluated =>
      \A i \in DistrictSet :
          /\ districts[i].pickup_load # Absent
          /\ districts[i].load_today = districts[i].pickup_load
          /\ districts[i].pickup_load[1] * Frequency(ChosenPattern(i))
                = districts[i].daily_tons * NumDays * LoadUnit
          /\ SumOver([day \in ActiveDays(i) |-> districts[i].load_today[1]], ActiveDays(i))
                = NumDays * districts[i].daily_tons * LoadUnit

\* an evaluation with one district on two visits a week and one on three
C22_Witness ==
    /\ pc = "evaluated"
    /\ \E i, j \in DistrictSet :
          /\ Frequency(ChosenPattern(i)) = 2
          /\ Frequency(ChosenPattern(j)) = 3

----------------------------------------------------------------------------
(* Properties of the costs solve_sa keeps *)

\* C23: when solve_sa returns, best_cost is the least of the costs of all the
\* assignments the run evaluated (the initial one and every proposal, kept or
\* not); a proposal that costs less than best_cost is never rejected: it
\* becomes the current and the best assignment.
C23_BestIsLeastEvaluated ==
    /\ [](Returned => best_cost = least_cost)
    /\ [][(ProposalStep /\ cost' < best_cost) =>
             /\ current_idx' = indices'
             /\ best_idx' = indices'
             /\ best_cost' = cost']_vars

\* the run has returned a best assignment cheaper than the initial one, after
\* rejecting a costlier proposal in its last iteration
C23_Witness ==
    /\ Returned
    /\ least_cost < first_cost
    /\ draw = "above"
    /\ cost > least_cost

\* C24: at the start of every iteration and at return, curr_cost is the cost a
\* full evaluate_solution of the current index vector yields, whatever
\* iterations were accepted, rejected or skipped before.
C24_CurrCostIsFullEvaluation ==
    (pc \in {"loop", "returned"}) => curr_cost = CostOf(current_idx)

\* the start of an iteration that follows a rejected proposal: the last
\* evaluation was not of the current assignment
C24_Witness ==
    /\ pc = "loop"
    /\ T > 0
    /\ draw = "above"
    /\ indices # current_idx
    /\ cost # curr_cost

\* C25: at every point of solve_sa, best_cost is the cost of a full evaluation
\* of best_idx and best_cost <= curr_cost; a proposal written into
\* current_idx and not improving on the best, kept or reverted, leaves
\* best_idx as it was.
C25_BestIsOwnCopy ==
    /\ []((InLoop \/ Returned) =>
             (best_cost = CostOf(best_idx) /\ best_cost <= curr_cost))
    /\ [][(ProposalStep /\ ~(cost' < best_cost)) => best_idx' = best_idx]_vars

\* the current assignment has been moved away from the best one and costs more
C25_Witness ==
    /\ pc = "loop"
    /\ current_idx # best_idx
    /\ curr_cost > best_cost
    /\ draw = "below"

\* v has one entry per district, each an index into that district's patterns
ValidIndexVector(v) ==
    /\ DOMAIN v = 1..Len(districts)
    /\ \A i \in 1..Len(districts) : v[i] \in 0..(Len(districts[i].patterns) - 1)

\* C26: at every point of solve_sa, the current index vector and best_idx have
\* one entry per district, and entry i is a valid index into district i's
\* candidate list: 0 <= index < number of candidates.
C26_IndicesValid ==
    (InLoop \/ Returned) => (ValidIndexVector(current_idx) /\ ValidIndexVector(best_idx))

\* the run has returned on a list with a single-candidate district and a
\* district left on another candidate than its first
C26_Witness ==
    /\ Returned
    /\ \E i, j \in 1..Len(districts) :
          /\ Len(districts[i].patterns) = 1
          /\ Len(districts[j].patterns) > 1
          /\ current_idx[j] > 0
          /\ best_idx[j] > 0

----------------------------------------------------------------------------
(* Properties of the truck count over tables read from a file *)

\* the components of a day (0-based) that hold the id of district i
ComponentsOf(i, day) ==
    {c \in connected_components(active_nodes(districts, day)) : districts[i].id \in c}

\* the pickup_load of all districts active on a day, in 1/LoadUnit ton
ActiveLoad(day) ==
    SumSeq([i \in 1..Len(districts) |->
               IF i \in ActiveOn(day) THEN districts[i].pickup_load[1] ELSE 0])

\* C27: for every district list, including ids that are no node of the
\* topology or occur more than once, on each day every active district's
\* pickup_load is included in the load of exactly one component, so the day's
\* truck count is at least ceil(sum of the active pickup_loads / TRUCK_CAPACITY).
C27_EveryLoadCarried ==
    Evaluated =>
        \A day \in 0..(NumDays - 1) :
            /\ \A i \in ActiveOn(day) : Cardinality(ComponentsOf(i, day)) = 1
            /\ daily_trucks[day + 1] >= trucks_for(ActiveLoad(day))

----------------------------------------------------------------------------
(* Properties of the cooling schedule *)

\* some district has two or more candidate patterns
SomeFree == \E i \in 1..Len(districts) : Len(districts[i].patterns) > 1

\* C28: the temperature is multiplied by alpha exactly once per iteration in
\* which a proposal is evaluated and is left unchanged by a skipped iteration
\* (and by the draw of a district); hence solve_sa returns after the same
\* number of evaluated proposals in every run, whatever is accepted, and it
\* does return whenever some district has two or more candidates and the
\* district selection is fair.
C28_CoolsOncePerProposal ==
    /\ [][/\ ProposalStep => T' = T + 1
          /\ SkippedStep => T' = T
          /\ (pc = "loop" /\ pc' = "selected") => T' = T]_vars
    /\ [](Returned => T = CoolingSteps)
    /\ (InLoop /\ SomeFree) ~> Returned

\* the run has returned on a list with a single-candidate district and a
\* district with several, its last proposal rejected
C28_Witness ==
    /\ Returned
    /\ T = CoolingSteps
    /\ SomeFree
    /\ \E i \in 1..Len(districts) : Len(districts[i].patterns) = 1
    /\ draw = "above"
    /\ current_idx # indices

----------------------------------------------------------------------------
(* Properties of the sharing groups drawn by the second visualization *)

\* C29: for every set of active districts, get_daily_clusters returns the same
\* partition into sharing groups as the solver's connected components of the
\* topology graph induced on that set, including for active ids that are no
\* node of the topology.
C29_SameClusters ==
    Evaluated =>
        \A day \in 0..(NumDays - 1) :
            get_daily_clusters(active_nodes(districts, day))
                = connected_components(active_nodes(districts, day))

----------------------------------------------------------------------------
(* Properties of the size of the pattern pool *)

\* how many of the district's candidates have the frequency f
CountOfFrequency(d, f) ==
    Cardinality({k \in 1..Len(d.patterns) : Frequency(d.patterns[k]) = f})

\* C30: with MAX_GAP_DAYS = 4 and STREET_CAPACITY_TONS = 600, get_valid_patterns
\* returns 35 patterns (7 of frequency 2, 28 of frequency 3) for a district
\* that is not high-risk with daily_tons <= 150 and 28 patterns for a high-risk
\* one with daily_tons <= 150; a district has exactly one candidate only when
\* the fallback pattern was inserted, which is when daily_tons > 200, so the
\* single-candidate skip of solve_sa is taken only for fallback districts.
C30_PoolSizes ==
    Pooled =>
        \A i \in DistrictSet :
            LET d == districts[i] IN
            /\ (d.daily_tons <= 150 /\ ~d.is_high_risk) =>
                  /\ Len(d.patterns) = 35
                  /\ CountOfFrequency(d, 2) = 7
                  /\ CountOfFrequency(d, 3) = 28
            /\ (d.daily_tons <= 150 /\ d.is_high_risk) =>
                  /\ Len(d.patterns) = 28
                  /\ CountOfFrequency(d, 3) = 28
            /\ single_candidate(d) <=> Survivors(d) = {}
            /\ single_candidate(d) <=> d.daily_tons > 200
            /\ single_candidate(d) => d.patterns = <<FallbackPattern>>

\* a district at the largest tonnage of the claim that is not high-risk has its
\* 35 candidates
C30_Witness ==
    /\ Pooled
    /\ \E i \in DistrictSet :
          /\ districts[i].daily_tons = 150
          /\ ~districts[i].is_high_risk
          /\ Len(districts[i].patterns) = 35

====
